---------------------------- MODULE Spec2Model ----------------------------
(***************************************************************************)
(* A model of victoryang00/rust-algorithms:                                *)
(*   - src/range_query/radix_tree.rs : the Rdx decomposition contract, the *)
(*     radix sort (rdxsort) and the radix trie (RdxTree) with its iterator *)
(*   - src/graph/ring_buffer.rs      : RingBuffer                          *)
(*   - src/range_query/seg_tree.rs   : SegmentTree                         *)
(*   - src/graph/skip_list.rs        : SkipList                            *)
(*                                                                         *)
(* A value of an integer type is its two's-complement bit pattern, held as *)
(* a sequence of nibbles, least significant first (x[1] is bits 0..3).     *)
(* A bool is TRUE or FALSE.                                                *)
(***************************************************************************)
EXTENDS Integers, Sequences, FiniteSets, TLC

VARIABLES
    ty,          \* the type parameter T of the running program
    input,       \* rdxsort: the caller's sequence on entry (values)
    slice,       \* rdxsort: `self`, elements [v |-> value, id |-> input position]
    buckets_a,   \* rdxsort: Vec<Vec<T>> buckets_a
    buckets_b,   \* rdxsort: Vec<Vec<T>> buckets_b
    round,       \* rdxsort: the next value of the loop variable `round`
    stray,       \* rdxsort: writes through get_unchecked_mut outside the Vec
    pc,          \* rdxsort: position in the call
    root,        \* RdxTree.root
    inserted,    \* RdxTree: the values passed to insert so far (history)
    ninserts,    \* RdxTree: number of insert calls so far
    iters,       \* RdxTreeIter.iters of each live iterator (or NoIter)
    emitted,     \* what each live iterator has returned so far
    exhausted,   \* whether each live iterator has returned None
    capacity,    \* RingBuffer.capacity
    buffer,      \* RingBuffer.buffer: the allocated slots
    read_offset, \* RingBuffer.read_offset
    write_offset,\* RingBuffer.write_offset
    fifo,        \* RingBuffer: elements written and not yet read (history)
    lastRead,    \* RingBuffer: result of the latest read call
    lastWrite,   \* RingBuffer: result of the latest write call
    data,        \* SegmentTree.data (indices from 0)
    tree,        \* SegmentTree.tree (indices from 0)
    segpc,       \* SegmentTree: position in the life of the object
    nsets,       \* SegmentTree: number of set calls so far
    lastSet,     \* SegmentTree: arguments and result of the latest set call
    lastQuery,   \* SegmentTree: arguments and result of the latest query call
    nodes,       \* SkipList: the heap of Rc<RefCell<Node>>, by address 1, 2, ..
    head,        \* SkipList.head: an address, or 0 for None
    tails,       \* SkipList.tails: per level an address, or 0 for None
    max_level,   \* SkipList.max_level
    length,      \* SkipList.length
    appended,    \* SkipList: the offsets passed to append so far (history)
    lastFind     \* SkipList: argument and result of the latest find call

sortVars == <<input, slice, buckets_a, buckets_b, round, stray, pc>>
treeVars == <<root, inserted, ninserts, iters, emitted, exhausted>>
ringVars == <<capacity, buffer, read_offset, write_offset, fifo, lastRead, lastWrite>>
segVars == <<data, tree, segpc, nsets, lastSet, lastQuery>>
skipVars == <<nodes, head, tails, max_level, length, appended, lastFind>>
vars == <<ty, sortVars, treeVars, ringVars, segVars, skipVars>>

---------------------------------------------------------------------------
(* Bounds of the model *)

\* longest sequence handed to rdxsort
MaxLen == 3
\* most insert calls on one RdxTree
MaxInserts == 3
\* largest capacity of a RingBuffer
MaxCap == 2
\* most successful write calls on one RingBuffer
MaxWrites == 4

---------------------------------------------------------------------------
(* The types that implement Rdx *)

Unsigned == {"u8", "u16", "u32", "u64"}
SignedTypes == {"i8", "i16", "i32", "i64"}
Supported == {"bool"} \cup Unsigned \cup SignedTypes

\* An Rdx implementation that breaks the contract of get_bucket: it declares
\* 8 buckets and returns a whole nibble (0..15).
BadType == "bad"
AllTypes == Supported \cup {BadType}

\* An Rdx implementation that keeps the contract and needs reverse: an
\* 8-bit sign-magnitude integer (bit 7 the sign, bits 0..6 the magnitude).
\* Rounds 0 and 1 take the magnitude a nibble at a time, round 2 puts the
\* negative values in bucket 0 and the others in bucket 1; bucket 0 then
\* holds the negative values by ascending magnitude, so reverse(2, 0) is
\* true.
RevType == "rev"

\* $alias of impl_rdxsort!
Alias(T) ==
    CASE T = "i8" -> "u8"
      [] T = "i16" -> "u16"
      [] T = "i32" -> "u32"
      [] T = "i64" -> "u64"

\* number of nibbles of a value of type T
NNib(T) ==
    CASE T \in {"u8", "i8"} -> 2
      [] T \in {"u16", "i16"} -> 4
      [] T \in {"u32", "i32"} -> 8
      [] T \in {"u64", "i64"} -> 16
      [] T = BadType -> 2
      [] T = RevType -> 2

Nibbles == 0..15

\* the bit pattern with top nibble `top`, low nibble `low`, `fill` between
Pat(T, top, fill, low) ==
    [i \in 1..NNib(T) |-> IF i = NNib(T) THEN top ELSE IF i = 1 THEN low ELSE fill]

\* $min: iN::min_value(), 0x80..0
MinValue(T) == Pat(T, 8, 0, 0)
\* $zero
Zero(T) == Pat(T, 0, 0, 0)

---------------------------------------------------------------------------
(* Numeric order of the types (the meaning of a bit pattern)               *)

\* the digits of x in base 16, most significant first; the top digit of a
\* signed type carries the sign (two's complement: -8..7)
NumKey(T, x) ==
    [i \in 1..Len(x) |->
        LET d == x[Len(x) + 1 - i]
        IN IF i = 1 /\ T \in SignedTypes /\ d >= 8 THEN d - 16 ELSE d]

SeqLess(a, b) ==
    \E k \in 1..Len(a) : a[k] < b[k] /\ \A j \in 1..(k - 1) : a[j] = b[j]

\* a < b in the natural order of T
NumLess(T, a, b) ==
    IF T = "bool" THEN a = FALSE /\ b = TRUE
    ELSE SeqLess(NumKey(T, a), NumKey(T, b))

NumLeq(T, a, b) == a = b \/ NumLess(T, a, b)

RECURSIVE IntVal(_, _)
\* the integer a bit pattern of at most 16 bits stands for
IntVal(T, x) ==
    IF Len(x) = 1
    THEN (IF T \in SignedTypes /\ x[1] >= 8 THEN x[1] - 16 ELSE x[1])
    ELSE x[1] + 16 * IntVal(T, Tail(x))

---------------------------------------------------------------------------
(* trait Rdx and its implementations *)

cfg_nbuckets_unsigned == 16

RECURSIVE cfg_nbuckets(_)
cfg_nbuckets(T) ==
    CASE T = "bool" -> 2
      [] T \in Unsigned -> cfg_nbuckets_unsigned
      [] T \in SignedTypes ->
            IF cfg_nbuckets(Alias(T)) >= 3 THEN cfg_nbuckets(Alias(T)) ELSE 3
      [] T = BadType -> 8
      [] T = RevType -> 16

RECURSIVE cfg_nrounds(_)
cfg_nrounds(T) ==
    CASE T = "bool" -> 1
      [] T = "u8" -> 2
      [] T = "u16" -> 4
      [] T = "u32" -> 8
      [] T = "u64" -> 16
      [] T \in SignedTypes -> cfg_nrounds(Alias(T)) + 1
      [] T = BadType -> 2
      [] T = RevType -> 3

\* self >> shift on an unsigned bit pattern (shift is a multiple of 4 here:
\* it is always round << 2)
Shr(x, shift) ==
    [i \in 1..Len(x) |->
        IF i + (shift \div 4) <= Len(x) THEN x[i + (shift \div 4)] ELSE 0]

\* x & 15
MutAnd31(x) == x[1] + 16 * (x[2] % 2)
And15(x) == x[1]

\* get_bucket of u8, u16, u32, u64
MutShiftByte(x, r) == And15(Shr(x, r * 8))
get_bucket_unsigned(x, r) ==
    LET shift == r * 4    \* round << 2
    IN And15(Shr(x, shift))

\* mem::transmute::<$t, $alias>: the same bits read as the unsigned type.
\* A value is its bit pattern, so the bits stay; what changes is the type
\* they are read at (NumKey of the alias takes the top nibble as 0..15).
transmute(x) == x

\* the last round of a signed type
MutSignRound(T, x) ==
    IF x = MinValue(T) THEN 0
    ELSE IF NumLeq(T, Zero(T), x) THEN 1
    ELSE 2
SignRound(T, x) ==
    IF x = MinValue(T) THEN 0
    ELSE IF NumLeq(T, Zero(T), x) THEN 2
    ELSE 1

get_bucket(T, x, r) ==
    CASE T = "bool" -> (IF x THEN 1 ELSE 0)
      [] T \in Unsigned -> get_bucket_unsigned(x, r)
      [] T \in SignedTypes ->
            IF r < cfg_nrounds(Alias(T))
            THEN get_bucket_unsigned(transmute(x), r)
            ELSE SignRound(T, x)
      [] T = BadType -> x[r + 1]
      [] T = RevType ->
            CASE r = 0 -> x[1]
              [] r = 1 -> x[2] % 8
              [] r = 2 -> (IF x[2] >= 8 THEN 0 ELSE 1)

\* every implementation in the file returns false (the default of the
\* trait is not overridden); RevType overrides it
reverse(T, r, bucket) == T = RevType /\ r = 2 /\ bucket = 0

---------------------------------------------------------------------------
(* Inputs *)

Samples(T) ==
    CASE T = "bool" -> {FALSE, TRUE}
      [] T \in Unsigned \cup SignedTypes ->
            { Pat(T, 8, 0, 0),      \* 0x80..00  iN::MIN
              Pat(T, 8, 0, 1),      \* 0x80..01  iN::MIN + 1
              Pat(T, 15, 15, 15),   \* 0xFF..FF  -1 / uN::MAX
              Pat(T, 0, 0, 0),      \* 0
              Pat(T, 0, 1, 1) }     \* 0x01..11
      [] T = BadType -> { <<0, 0>>, <<1, 0>>, <<7, 7>>, <<8, 0>>, <<0, 9>> }
      [] T = RevType -> { <<1, 8>>,       \* -1
                          <<2, 8>>,       \* -2
                          <<0, 9>>,       \* -16
                          <<0, 0>>,       \* 0
                          <<3, 0>> }      \* 3

SeqsUpTo(S, n) == UNION { [1..k -> S] : k \in 0..n }

---------------------------------------------------------------------------
(* rdxsort *)

Range(f) == { f[i] : i \in DOMAIN f }

RECURSIVE Rev(_)
\* iter().rev()
Rev(s) == IF s = <<>> THEN <<>> ELSE Append(Rev(Tail(s)), Head(s))

\* Vec::with_capacity(cfg_nbuckets) filled with empty Vecs
NewBuckets(nb) == [i \in 0..(nb - 1) |-> <<>>]

\* lines 422-424: `for bucket in &mut buckets_b { bucket.clear(); }`
MutNoClear(b) == b
ClearBuckets(b) == [i \in DOMAIN b |-> <<>>]

\* the assert! of helper_bucket
MutAssertOffByOne(b, nb) == b <= nb
MutNoAssert(b, nb) == TRUE
assert_bucket(b, nb) == b < nb

\* buckets_b.get_unchecked_mut(b).push(x): an index outside the Vec is an
\* unchecked write outside it, recorded in stray
MutPushFront(st, b, x) ==
    IF b \in DOMAIN st.buckets
    THEN [st EXCEPT !.buckets[b] = <<x>> \o @]
    ELSE [st EXCEPT !.stray = @ \cup {<<b, x>>}]
UncheckedPush(st, b, x) ==
    IF b \in DOMAIN st.buckets
    THEN [st EXCEPT !.buckets[b] = Append(@, x)]
    ELSE [st EXCEPT !.stray = @ \cup {<<b, x>>}]

RECURSIVE helper_bucket(_, _, _, _, _)
\* st is [buckets, stray, panic]; a panic ends the call
helper_bucket(T, st, iter, nb, r) ==
    IF iter = <<>> \/ st.panic THEN st
    ELSE LET x == Head(iter)
             b == get_bucket(T, x.v, r)
         IN IF ~assert_bucket(b, nb)
            THEN [st EXCEPT !.panic = TRUE]
            ELSE helper_bucket(T, UncheckedPush(st, b, x), Tail(iter), nb, r)

RECURSIVE RoundLoop(_, _, _, _, _, _)
\* for (i, bucket) in buckets_a.iter().enumerate(), from bucket i on
RoundLoop(T, st, a, i, nb, r) ==
    IF i >= nb \/ st.panic THEN st
    ELSE LET it == IF reverse(T, r - 1, i) THEN Rev(a[i]) ELSE a[i]
         IN RoundLoop(T, helper_bucket(T, st, it, nb, r), a, i + 1, nb, r)

\* writes the elements of src to self[pos..], unchecked
CopyAt(s, pos, src) ==
    [k \in DOMAIN s |->
        IF k > pos /\ k <= pos + Len(src) THEN src[k - pos] ELSE s[k]]

RECURSIVE WriteBackLoop(_, _, _, _, _)
\* for (i, bucket) in buckets_a.iter_mut().enumerate(), from bucket i on;
\* w is [s, pos, panic]
WriteBackLoop(T, w, a, i, nb) ==
    IF i >= nb \/ w.panic THEN w
    ELSE IF ~(w.pos + Len(a[i]) <= Len(w.s))
         THEN [w EXCEPT !.panic = TRUE]
         ELSE LET src == IF reverse(T, cfg_nrounds(T) - 1, i) THEN Rev(a[i]) ELSE a[i]
              IN WriteBackLoop(T,
                               [w EXCEPT !.s = CopyAt(w.s, w.pos, src),
                                         !.pos = w.pos + Len(a[i])],
                               a, i + 1, nb)

---------------------------------------------------------------------------
(* Iterator slots                                                          *)

NoIter == "NoIter"
IterIds == {1, 2}

\* no live iterator in any slot
NoIters == [i \in IterIds |-> NoIter]
NoneEmitted == [i \in IterIds |-> <<>>]
NoneExhausted == [i \in IterIds |-> FALSE]

RECURSIVE SortRounds(_, _, _, _)
\* `for round in r..cfg_nrounds`: a is buckets_a, b is buckets_b
SortRounds(T, a, b, r) ==
    IF r >= cfg_nrounds(T) THEN a
    ELSE LET nb == cfg_nbuckets(T)
             st == RoundLoop(T, [buckets |-> ClearBuckets(b), stray |-> {},
                                 panic |-> FALSE], a, 0, nb, r)
         IN SortRounds(T, st.buckets, a, r + 1)

\* a whole call of rdxsort on a sequence of values of a type that keeps the
\* contract: the sequence after the call
rdxsort(T, s) ==
    LET nb == cfg_nbuckets(T)
        self == [i \in DOMAIN s |-> [v |-> s[i], id |-> i]]
        st == helper_bucket(T, [buckets |-> NewBuckets(nb), stray |-> {},
                                panic |-> FALSE], self, nb, 0)
        a == SortRounds(T, st.buckets, NewBuckets(nb), 1)
        w == WriteBackLoop(T, [s |-> self, pos |-> 0, panic |-> FALSE], a, 0, nb)
    IN [i \in DOMAIN s |-> w.s[i].v]

---------------------------------------------------------------------------
(* rdxsort, step by step: the round-0 distribution, each later round, the  *)
(* write-back                                                              *)

InitSort ==
    /\ ty \in AllTypes
    /\ input \in SeqsUpTo(Samples(ty), MaxLen)
    /\ slice = [i \in 1..Len(input) |-> [v |-> input[i], id |-> i]]
    /\ buckets_a = <<>> /\ buckets_b = <<>>
    /\ round = 0 /\ stray = {} /\ pc = "call"
    /\ root = "none" /\ inserted = {} /\ ninserts = 0
    /\ iters = NoIters /\ emitted = NoneEmitted /\ exhausted = NoneExhausted
    /\ capacity = 0 /\ buffer = <<>> /\ read_offset = 0 /\ write_offset = 0
    /\ fifo = <<>> /\ lastRead = "none" /\ lastWrite = "none"
    /\ data = <<>> /\ tree = <<>> /\ segpc = "idle" /\ nsets = 0
    /\ lastSet = "none" /\ lastQuery = "none"
    /\ nodes = <<>> /\ head = 0 /\ tails = <<>> /\ max_level = 0 /\ length = 0
    /\ appended = <<>> /\ lastFind = "none"

\* lines 400-419: config, early return, allocation, round 0
SortBegin ==
    /\ pc = "call"
    /\ LET nb == cfg_nbuckets(ty)
           nr == cfg_nrounds(ty)
       IN IF nr = 0
          THEN /\ pc' = "done"
               /\ UNCHANGED <<buckets_a, buckets_b, round, stray>>
          ELSE LET st == helper_bucket(ty,
                            [buckets |-> NewBuckets(nb), stray |-> {}, panic |-> FALSE],
                            slice, nb, 0)
               IN /\ buckets_a' = st.buckets
                  /\ buckets_b' = NewBuckets(nb)
                  /\ stray' = st.stray
                  /\ round' = IF st.panic THEN 0 ELSE 1
                  /\ pc' = IF st.panic THEN "panic_contract" ELSE "rounds"
    /\ UNCHANGED <<ty, input, slice, treeVars, ringVars, segVars, skipVars>>

\* lines 421-436: one iteration of `for round in 1..cfg_nrounds`
SortRound ==
    /\ pc = "rounds"
    /\ round < cfg_nrounds(ty)
    /\ LET nb == cfg_nbuckets(ty)
           st == RoundLoop(ty,
                           [buckets |-> ClearBuckets(buckets_b), stray |-> stray,
                            panic |-> FALSE],
                           buckets_a, 0, nb, round)
       IN /\ stray' = st.stray
          /\ IF st.panic
             THEN /\ buckets_b' = st.buckets
                  /\ pc' = "panic_contract"
                  /\ UNCHANGED <<buckets_a, round>>
             ELSE /\ buckets_a' = st.buckets      \* mem::swap
                  /\ buckets_b' = buckets_a
                  /\ round' = round + 1
                  /\ pc' = "rounds"
    /\ UNCHANGED <<ty, input, slice, treeVars, ringVars, segVars, skipVars>>

\* lines 438-460: the write-back and its assertions
SortWriteBack ==
    /\ pc = "rounds"
    /\ round >= cfg_nrounds(ty)
    /\ LET w == WriteBackLoop(ty, [s |-> slice, pos |-> 0, panic |-> FALSE],
                              buckets_a, 0, cfg_nbuckets(ty))
       IN /\ slice' = w.s
          /\ pc' = IF w.panic \/ w.pos # Len(slice) THEN "panic_bug" ELSE "done"
    /\ UNCHANGED <<ty, input, buckets_a, buckets_b, round, stray, treeVars, ringVars, segVars, skipVars>>

NextSort == SortBegin \/ SortRound \/ SortWriteBack

SpecSort == InitSort /\ [][NextSort]_vars

---------------------------------------------------------------------------
(* RdxTree: enum Node, struct NodeInner                                    *)

Free == [kind |-> "Free"]
Child(x) == [kind |-> "Child", x |-> x]
Inner(inner) == [kind |-> "Inner", inner |-> inner]
\* the state of a tree whose insert panicked
Poisoned == [kind |-> "Panic"]

None == [some |-> FALSE]
Some(x) == [some |-> TRUE, x |-> x]

MutNewOneShort(r, nbuckets) ==
    [round |-> r, children |-> [i \in 1..(nbuckets - 1) |-> Free]]
NodeInner_new(r, nbuckets) ==
    [round |-> r, children |-> [i \in 0..(nbuckets - 1) |-> Free]]

\* let bucket = x.get_bucket(self.round - 1)
MutInsertBucketLsd(T, x, r) == get_bucket(T, x, cfg_nrounds(T) - r)
InsertBucket(T, x, r) == get_bucket(T, x, r - 1)

\* the match on self.children[bucket] for round > 1: the NodeInner the
\* insertion goes on in, or not ok for unreachable!()
MutDescendAlwaysNew(child, r, clen) ==
    [ok |-> child.kind # "Child", inner |-> NodeInner_new(r - 1, clen)]
DescendInto(child, r, clen) ==
    CASE child.kind = "Free" -> [ok |-> TRUE, inner |-> NodeInner_new(r - 1, clen)]
      [] child.kind = "Inner" -> [ok |-> TRUE, inner |-> child.inner]
      [] child.kind = "Child" -> [ok |-> FALSE, inner |-> NodeInner_new(r - 1, clen)]

RECURSIVE NodeInner_insert(_, _, _)
\* the NodeInner after insert(x), or not ok when the call panics (an index
\* outside children, or unreachable!())
NodeInner_insert(T, self, x) ==
    LET bucket == InsertBucket(T, x, self.round)
        clen == Cardinality(DOMAIN self.children)
        fail == [ok |-> FALSE, inner |-> self]
    IN IF bucket \notin DOMAIN self.children THEN fail
       ELSE IF self.round > 1
       THEN LET d == DescendInto(self.children[bucket], self.round, clen)
            IN IF ~d.ok THEN fail
               ELSE LET sub == NodeInner_insert(T, d.inner, x)
                    IN IF ~sub.ok THEN fail
                       ELSE [ok |-> TRUE,
                             inner |-> [self EXCEPT !.children[bucket] = Inner(sub.inner)]]
       ELSE CASE self.children[bucket].kind = "Free" ->
                    [ok |-> TRUE, inner |-> [self EXCEPT !.children[bucket] = Child(x)]]
              [] self.children[bucket].kind = "Child" ->
                    [ok |-> TRUE, inner |-> [self EXCEPT !.children[bucket] = Child(x)]]
              [] self.children[bucket].kind = "Inner" -> fail

RECURSIVE NodeInner_nnodes(_)
RECURSIVE NnodesOver(_, _)
\* the loop of nnodes over self.children: S holds the indices of the
\* children still to visit that are Node::Inner (the others add nothing)
NnodesOver(self, S) ==
    IF S = {} THEN 0
    ELSE LET i == CHOOSE j \in S : \A k \in S : j <= k
         IN NodeInner_nnodes(self.children[i].inner) + NnodesOver(self, S \ {i})

MutNnodesFromZero(self) ==
    NnodesOver(self, { i \in DOMAIN self.children : self.children[i].kind = "Inner" })
MutNnodesCountsFree(self) ==
    1 + NnodesOver(self, { i \in DOMAIN self.children : self.children[i].kind = "Inner" })
      + Cardinality({ i \in DOMAIN self.children : self.children[i].kind = "Free" })
NodeInner_nnodes(self) ==
    1 + NnodesOver(self, { i \in DOMAIN self.children : self.children[i].kind = "Inner" })

RdxTree_new(T) == Inner(NodeInner_new(cfg_nrounds(T), cfg_nbuckets(T)))

RdxTree_insert(T, rt, x) ==
    LET r == NodeInner_insert(T, rt.inner, x)
    IN IF r.ok THEN Inner(r.inner) ELSE Poisoned

RdxTree_nnodes(rt) == NodeInner_nnodes(rt.inner)

---------------------------------------------------------------------------
(* RdxTreeIter: a slice::Iter over the children of a node is the path of   *)
(* bucket indices from the root to that node and the next index            *)

RdxTree_iter(rt) == << [path |-> <<>>, pos |-> 0] >>

RECURSIVE InnerAt(_, _)
\* the NodeInner a path of bucket indices leads to
InnerAt(inner, path) ==
    IF path = <<>> THEN inner
    ELSE InnerAt(inner.children[Head(path)].inner, Tail(path))

RECURSIVE WithoutLeaf(_, _, _)
WithoutLeaf(inner, path, pos) ==
    IF path = <<>> THEN [inner EXCEPT !.children[pos] = Free]
    ELSE [inner EXCEPT !.children[Head(path)] =
                Inner(WithoutLeaf(@.inner, Tail(path), pos))]

\* Some(&Node::Child(ref x)) => result = Some(x): `its` is the stack after
\* it.next(), n the node it returned
MutTakeChild(rt, its, n) ==
    LET it == its[Len(its)]
    IN [root |-> Inner(WithoutLeaf(rt.inner, it.path, it.pos - 1)),
        iters |-> its, result |-> Some(n.x)]
YieldChild(rt, its, n) ==
    [root |-> rt, iters |-> its, result |-> Some(n.x)]

\* the index of the first child at or after pos that is not Node::Free, or
\* the length of the slice: a pass of the loop of next() that meets
\* Node::Free only moves the slice iterator on
SkipFree(ch, pos) ==
    LET used == { j \in DOMAIN ch : j >= pos /\ ch[j].kind # "Free" }
    IN IF used = {} THEN Cardinality(DOMAIN ch)
       ELSE CHOOSE j \in used : \A k \in used : j <= k

RECURSIVE RdxTreeIter_next(_, _)
\* next(): the loop runs until a value is found or the stack is empty
RdxTreeIter_next(rt, its) ==
    IF Len(its) = 0 THEN [root |-> rt, iters |-> its, result |-> None]
    ELSE LET it == its[Len(its)]
             ch == InnerAt(rt.inner, it.path).children
             p == SkipFree(ch, it.pos)
         IN IF p \notin DOMAIN ch
            THEN RdxTreeIter_next(rt, SubSeq(its, 1, Len(its) - 1))
            ELSE LET n == ch[p]
                     adv == [its EXCEPT ![Len(its)].pos = p + 1]
                 IN CASE n.kind = "Child" -> YieldChild(rt, adv, n)
                      [] n.kind = "Inner" ->
                            RdxTreeIter_next(rt,
                                Append(adv, [path |-> Append(it.path, p), pos |-> 0]))

---------------------------------------------------------------------------
(* RdxTree: new, then insert calls; iterators are created and advanced     *)
(* between them. An insert needs the tree unborrowed: it ends the          *)
(* iterators.                                                              *)

InitTree ==
    /\ ty \in Supported
    /\ root = RdxTree_new(ty)
    /\ inserted = {} /\ ninserts = 0
    /\ iters = NoIters /\ emitted = NoneEmitted /\ exhausted = NoneExhausted
    /\ input = <<>> /\ slice = <<>>
    /\ buckets_a = <<>> /\ buckets_b = <<>>
    /\ round = 0 /\ stray = {} /\ pc = "idle"
    /\ capacity = 0 /\ buffer = <<>> /\ read_offset = 0 /\ write_offset = 0
    /\ fifo = <<>> /\ lastRead = "none" /\ lastWrite = "none"
    /\ data = <<>> /\ tree = <<>> /\ segpc = "idle" /\ nsets = 0
    /\ lastSet = "none" /\ lastQuery = "none"
    /\ nodes = <<>> /\ head = 0 /\ tails = <<>> /\ max_level = 0 /\ length = 0
    /\ appended = <<>> /\ lastFind = "none"

TreeInsert ==
    /\ root.kind = "Inner"
    /\ ninserts < MaxInserts
    /\ \E x \in Samples(ty) :
          /\ root' = RdxTree_insert(ty, root, x)
          /\ inserted' = inserted \cup {x}
    /\ ninserts' = ninserts + 1
    /\ iters' = NoIters /\ emitted' = NoneEmitted /\ exhausted' = NoneExhausted
    /\ UNCHANGED <<ty, sortVars, ringVars, segVars, skipVars>>

TreeIter ==
    /\ root.kind = "Inner"
    /\ \E i \in IterIds :
          /\ iters' = [iters EXCEPT ![i] = RdxTree_iter(root)]
          /\ emitted' = [emitted EXCEPT ![i] = <<>>]
          /\ exhausted' = [exhausted EXCEPT ![i] = FALSE]
    /\ UNCHANGED <<ty, root, inserted, ninserts, sortVars, ringVars, segVars, skipVars>>

TreeIterNext ==
    /\ root.kind = "Inner"
    /\ \E i \in IterIds :
          /\ iters[i] # NoIter
          /\ LET r == RdxTreeIter_next(root, iters[i])
             IN /\ root' = r.root
                /\ iters' = [iters EXCEPT ![i] = r.iters]
                /\ emitted' = [emitted EXCEPT ![i] =
                                  IF r.result.some THEN Append(@, r.result.x) ELSE @]
                /\ exhausted' = [exhausted EXCEPT ![i] = ~r.result.some]
    /\ UNCHANGED <<ty, inserted, ninserts, sortVars, ringVars, segVars, skipVars>>

NextTree == TreeInsert \/ TreeIter \/ TreeIterNext

SpecTree == InitTree /\ [][NextTree]_vars

\* the same calls on an RdxTree of the type that overrides reverse
InitTreeReversing ==
    /\ ty = RevType
    /\ root = RdxTree_new(ty)
    /\ inserted = {} /\ ninserts = 0
    /\ iters = NoIters /\ emitted = NoneEmitted /\ exhausted = NoneExhausted
    /\ input = <<>> /\ slice = <<>>
    /\ buckets_a = <<>> /\ buckets_b = <<>>
    /\ round = 0 /\ stray = {} /\ pc = "idle"
    /\ capacity = 0 /\ buffer = <<>> /\ read_offset = 0 /\ write_offset = 0
    /\ fifo = <<>> /\ lastRead = "none" /\ lastWrite = "none"
    /\ data = <<>> /\ tree = <<>> /\ segpc = "idle" /\ nsets = 0
    /\ lastSet = "none" /\ lastQuery = "none"
    /\ nodes = <<>> /\ head = 0 /\ tails = <<>> /\ max_level = 0 /\ length = 0
    /\ appended = <<>> /\ lastFind = "none"

SpecTreeReversing == InitTreeReversing /\ [][NextTree]_vars

---------------------------------------------------------------------------
(* RingBuffer: new, then write and read calls                              *)

Elems == {"a", "b"}
\* the content of a slot of the allocation that was never written
Uninit == "uninit"
\* what memory outside the allocation may hold
Garbage == "garbage"

NoCall == [kind |-> "None"]

is_empty == read_offset = write_offset
MutIsFullOffByOne == write_offset - read_offset = capacity + 1
is_full == write_offset - read_offset = capacity

\* let read_ptr = self.buffer.offset(self.read_offset as isize)
ReadSlot == read_offset

\* self.buffer.offset((self.write_offset as isize) % (self.capacity as isize))
WriteSlot == write_offset % capacity

\* the values std::ptr::read may return from a slot: the element written
\* there, or anything when the slot lies outside the allocation or was never
\* written (undefined behaviour)
ReadValues(slot) ==
    IF slot \in DOMAIN buffer /\ buffer[slot] # Uninit
    THEN {buffer[slot]}
    ELSE Elems \cup {Garbage}

InitRing ==
    /\ capacity \in 1..MaxCap
    /\ buffer = [i \in 0..(capacity - 1) |-> Uninit]
    /\ read_offset = 0 /\ write_offset = 0
    /\ fifo = <<>> /\ lastRead = NoCall /\ lastWrite = NoCall
    /\ data = <<>> /\ tree = <<>> /\ segpc = "idle" /\ nsets = 0
    /\ lastSet = "none" /\ lastQuery = "none"
    /\ nodes = <<>> /\ head = 0 /\ tails = <<>> /\ max_level = 0 /\ length = 0
    /\ appended = <<>> /\ lastFind = "none"
    /\ ty = "bool"
    /\ input = <<>> /\ slice = <<>>
    /\ buckets_a = <<>> /\ buckets_b = <<>>
    /\ round = 0 /\ stray = {} /\ pc = "idle"
    /\ root = "none" /\ inserted = {} /\ ninserts = 0
    /\ iters = NoIters /\ emitted = NoneEmitted /\ exhausted = NoneExhausted

\* a read outside the allocation may also end the process
Running == lastRead.kind # "Crash"

RingWrite ==
    /\ Running
    /\ \E element \in Elems :
          IF is_full
          THEN /\ lastWrite' = [kind |-> "Full"]
               /\ UNCHANGED <<buffer, write_offset, fifo>>
          ELSE /\ write_offset < MaxWrites
               /\ buffer' = [buffer EXCEPT ![WriteSlot] = element]
               /\ write_offset' = write_offset + 1
               /\ fifo' = Append(fifo, element)
               /\ lastWrite' = [kind |-> "Ok", slot |-> WriteSlot]
    /\ UNCHANGED <<capacity, read_offset, lastRead, ty, sortVars, treeVars, segVars, skipVars>>

RingRead ==
    /\ Running
    /\ IF is_empty
       THEN /\ lastRead' = [kind |-> "Empty"]
            /\ UNCHANGED <<read_offset, fifo>>
       ELSE \/ \E value \in ReadValues(ReadSlot) :
                  /\ lastRead' = [kind |-> "Ok", value |-> value,
                                  oldest |-> Head(fifo), slot |-> ReadSlot]
                  /\ read_offset' = read_offset + 1
                  /\ fifo' = Tail(fifo)
            \/ /\ ReadSlot \notin DOMAIN buffer
               /\ lastRead' = [kind |-> "Crash"]
               /\ UNCHANGED <<read_offset, fifo>>
    /\ UNCHANGED <<capacity, buffer, write_offset, lastWrite, ty, sortVars, treeVars, segVars, skipVars>>

NextRing == RingWrite \/ RingRead

SpecRing == InitRing /\ [][NextRing]_vars


---------------------------------------------------------------------------
(* SegmentTree: new_segment_tree, build, then query and set calls. An i32  *)
(* is the integer it stands for; + on i32 wraps (a build without overflow  *)
(* checks).                                                                *)

\* longest array handed to new_segment_tree
MaxArr == 4
\* most set calls on one SegmentTree
MaxSets == 1

I32Max == 2147483647
I32Min == -I32Max - 1

\* the values of the arrays and of set: the ends of i32 and small values of
\* both signs
SegVals == {I32Max, -1, 2}

\* a + b on i32, wrapping
Add32(a, b) ==
    IF a > 0 /\ b > I32Max - a THEN (a - I32Max - 1) + (b - I32Max - 1)
    ELSE IF a < 0 /\ b < I32Min - a THEN (a + I32Max + 1) + (b + I32Max + 1)
    ELSE a + b

MutLeftChildIsRight(index) == 2 * index + 2
left_child(index) == 2 * index + 1
right_child(index) == 2 * index + 2

\* SegmentTree { data: arr, tree: vec![None; 4 * data_len] }
new_segment_tree(arr) ==
    [data |-> arr, tree |-> [i \in 0..(4 * Cardinality(DOMAIN arr) - 1) |-> None]]

\* get(index)
get(index) == IF index >= Cardinality(DOMAIN data) THEN None ELSE Some(data[index])

\* self.tree[i] = v; st is [tree, status], status "ok", or "panic" after an
\* index outside the Vec, or "diverge" for a recursion that never returns
Store(st, i, v) ==
    IF st.status # "ok" THEN st
    ELSE IF i \notin DOMAIN st.tree THEN [st EXCEPT !.status = "panic"]
    ELSE [st EXCEPT !.tree[i] = v]

\* if let Some(l) = self.tree[lti] { if let Some(r) = self.tree[rti] {
\*     self.tree[ti] = Some(l + r) } }
Combine(st, ti, lti, rti) ==
    IF st.status # "ok" THEN st
    ELSE IF lti \notin DOMAIN st.tree THEN [st EXCEPT !.status = "panic"]
    ELSE IF ~st.tree[lti].some THEN st
    ELSE IF rti \notin DOMAIN st.tree THEN [st EXCEPT !.status = "panic"]
    ELSE IF ~st.tree[rti].some THEN st
    ELSE Store(st, ti, Some(Add32(st.tree[lti].x, st.tree[rti].x)))

RECURSIVE build_segment_tree(_, _, _, _, _)
build_segment_tree(st, d, tree_index, left, right) ==
    IF st.status # "ok" THEN st
    ELSE IF left = right THEN Store(st, tree_index, Some(d[left]))
    ELSE LET left_tree_index == left_child(tree_index)
             right_tree_index == right_child(tree_index)
             mid == (right - left) \div 2 + left
             sl == build_segment_tree(st, d, left_tree_index, left, mid)
             sr == build_segment_tree(sl, d, right_tree_index, mid + 1, right)
         IN Combine(sr, tree_index, left_tree_index, right_tree_index)

\* build(), on a non-empty data
build(d, t) ==
    build_segment_tree([tree |-> t, status |-> "ok"], d, 0, 0, Cardinality(DOMAIN d) - 1)

\* results of recursion_query
QVal(v) == [kind |-> "Val", v |-> v]
QPanic == [kind |-> "Panic"]

RECURSIVE recursion_query(_, _, _, _, _, _)
\* query calls it with l <= query_left <= query_right, and with
\* query_right <= r unless query_right is the length of the data. With
\* r < l the usize subtraction r - l panics under overflow checks; without
\* them it wraps, the range (l, huge) is halved down to (l, l) through left
\* children only, and the tree index reached lies outside the Vec: a panic
\* in either build.
recursion_query(t, tree_index, l, r, query_left, query_right) ==
    IF l = query_left /\ r = query_right
    THEN IF tree_index \notin DOMAIN t THEN QPanic
         ELSE IF t[tree_index].some THEN QVal(t[tree_index].x) ELSE QVal(0)
    ELSE IF r < l THEN QPanic
    ELSE LET mid == l + (r - l) \div 2
             l_t_ind == left_child(tree_index)
             r_t_ind == right_child(tree_index)
         IN IF query_left >= mid + 1
            THEN recursion_query(t, r_t_ind, mid + 1, r, query_left, query_right)
            ELSE IF query_right <= mid
            THEN recursion_query(t, l_t_ind, l, mid, query_left, query_right)
            ELSE LET l_res == recursion_query(t, l_t_ind, l, mid, query_left, mid)
                     r_res == recursion_query(t, r_t_ind, mid + 1, r, mid + 1, query_right)
                 IN IF l_res.kind = "Val" /\ r_res.kind = "Val"
                    THEN QVal(Add32(l_res.v, r_res.v))
                    ELSE QPanic

\* query(l, r): Err("Error"), or Ok of a value, or a panic
query(d, t, l, r) ==
    LET len == Cardinality(DOMAIN d)
    IN IF l > len \/ r > len \/ l > r THEN [kind |-> "Err"]
       ELSE LET res == recursion_query(t, 0, 0, len - 1, l, r)
            IN IF res.kind = "Val" THEN [kind |-> "Ok", v |-> res.v]
               ELSE [kind |-> "Panic"]

RECURSIVE recursion_set(_, _, _, _, _, _)
\* a call whose recursive call has the arguments l, r of the call itself
\* never returns (the stack overflows): "diverge"
recursion_set(st, index_tree, l, r, index, e) ==
    IF st.status # "ok" THEN st
    ELSE IF l = r THEN Store(st, index_tree, Some(e))
    ELSE LET mid == l + (r - 1) \div 2
             lc == left_child(index_tree)
             rc == right_child(index_tree)
             right == index >= mid + 1
             nl == IF right THEN mid + 1 ELSE l
             nr == IF right THEN r ELSE mid
         IN IF nl = l /\ nr = r THEN [st EXCEPT !.status = "diverge"]
            ELSE Combine(recursion_set(st, IF right THEN rc ELSE lc, nl, nr, index, e),
                         index_tree, lc, rc)

\* set(index, e): the object after the call and the result
set(d, t, index, e) ==
    IF index >= Cardinality(DOMAIN d)
    THEN [data |-> d, tree |-> t, result |-> "Err"]
    ELSE LET d2 == [d EXCEPT ![index] = e]
             st == recursion_set([tree |-> t, status |-> "ok"], 0, 0,
                                 Cardinality(DOMAIN d) - 1, index, e)
         IN [data |-> d2, tree |-> st.tree,
             result |-> IF st.status = "ok" THEN "Ok" ELSE st.status]

NoSegCall == [kind |-> "None"]

\* after new_segment_tree(arr) on a non-empty array
InitSeg ==
    /\ \E n \in 1..MaxArr : data \in [0..(n - 1) -> SegVals]
    /\ tree = new_segment_tree(data).tree
    /\ segpc = "new"
    /\ nsets = 0
    /\ lastSet = NoSegCall /\ lastQuery = NoSegCall
    /\ ty = "bool"
    /\ input = <<>> /\ slice = <<>>
    /\ buckets_a = <<>> /\ buckets_b = <<>>
    /\ round = 0 /\ stray = {} /\ pc = "idle"
    /\ root = "none" /\ inserted = {} /\ ninserts = 0
    /\ iters = NoIters /\ emitted = NoneEmitted /\ exhausted = NoneExhausted
    /\ capacity = 0 /\ buffer = <<>> /\ read_offset = 0 /\ write_offset = 0
    /\ fifo = <<>> /\ lastRead = "none" /\ lastWrite = "none"
    /\ nodes = <<>> /\ head = 0 /\ tails = <<>> /\ max_level = 0 /\ length = 0
    /\ appended = <<>> /\ lastFind = "none"

\* tree.build()
SegBuild ==
    /\ segpc = "new"
    /\ LET st == build(data, tree)
       IN /\ tree' = st.tree
          /\ segpc' = IF st.status = "ok" THEN "built" ELSE st.status
    /\ UNCHANGED <<data, nsets, lastSet, lastQuery, ty, sortVars, treeVars, ringVars, skipVars>>

\* tree.query(l, r) with 0 <= l <= r < len. query takes &self and changes
\* nothing, so one recorded call per state of the object covers the calls
\* that may follow it.
SegQuery ==
    /\ segpc = "built"
    /\ lastQuery = NoSegCall
    /\ \E l, r \in DOMAIN data :
          /\ l <= r
          /\ lastQuery' = [kind |-> "Call", l |-> l, r |-> r,
                           result |-> query(data, tree, l, r)]
    /\ UNCHANGED <<data, tree, segpc, nsets, lastSet, ty, sortVars, treeVars, ringVars, skipVars>>

\* tree.set(index, e) with index < len
SegSet ==
    /\ segpc = "built"
    /\ nsets < MaxSets
    /\ \E index \in DOMAIN data, e \in SegVals :
          LET res == set(data, tree, index, e)
          IN /\ data' = res.data
             /\ tree' = res.tree
             /\ segpc' = IF res.result = "Ok" THEN "built" ELSE res.result
             /\ lastSet' = [kind |-> "Call", index |-> index, e |-> e,
                            result |-> res.result]
    /\ nsets' = nsets + 1
    /\ lastQuery' = NoSegCall
    /\ UNCHANGED <<ty, sortVars, treeVars, ringVars, skipVars>>

\* the arguments tried around the ends of the data: the first and the last
\* index, the length, and the length plus one
OutOfRangeLefts(len) == {0, len - 1, len, len + 1}
OutOfRangeRights(len) == {0, len, len + 1}

\* tree.query(l, r) with l > r, or l or r no index of the data
SegQueryOutOfRange ==
    /\ segpc = "built"
    /\ lastQuery = NoSegCall
    /\ \E l \in OutOfRangeLefts(Cardinality(DOMAIN data)),
          r \in OutOfRangeRights(Cardinality(DOMAIN data)) :
          /\ ~(l <= r /\ r \in DOMAIN data)
          /\ LET res == query(data, tree, l, r)
             IN /\ lastQuery' = [kind |-> "CallOut", l |-> l, r |-> r, result |-> res]
                /\ segpc' = IF res.kind = "Panic" THEN "panic" ELSE segpc
    /\ UNCHANGED <<data, tree, nsets, lastSet, ty, sortVars, treeVars, ringVars, skipVars>>

\* tree.set(index, e) with index >= len
SegSetOutOfRange ==
    /\ segpc = "built"
    /\ nsets < MaxSets
    /\ \E index \in Cardinality(DOMAIN data)..(Cardinality(DOMAIN data) + 1), e \in SegVals :
          LET res == set(data, tree, index, e)
          IN /\ data' = res.data
             /\ tree' = res.tree
             /\ segpc' = IF res.result \in {"Ok", "Err"} THEN segpc ELSE res.result
             /\ lastSet' = [kind |-> "CallOut", index |-> index, result |-> res.result]
    /\ nsets' = nsets + 1
    /\ lastQuery' = NoSegCall
    /\ UNCHANGED <<ty, sortVars, treeVars, ringVars, skipVars>>

NextSeg == SegBuild \/ SegQuery \/ SegSet \/ SegQueryOutOfRange \/ SegSetOutOfRange

SpecSeg == InitSeg /\ [][NextSeg]_vars

---------------------------------------------------------------------------
(* SkipList: new, then append and find calls. An Rc<RefCell<Node>> is the  *)
(* address of the node in `nodes`; a Link is an address, or 0 for None.    *)
(* The Vec index i of the code is index i + 1 here.                        *)

\* largest `level` handed to SkipList::new
MaxLevel == 3
\* most append calls on one SkipList
MaxAppends == 3
\* largest step between the offsets of two appends
MaxStep == 2

SkipData == {"p", "q"}

\* Node::new(next, offset, data)
Node_new(next, offset, d) == [data |-> d, next |-> next, offset |-> offset]

\* SkipList::new(level), level >= 1
SkipList_new(level) ==
    [head |-> 0, tails |-> [i \in 1..level |-> 0], max_level |-> level - 1, length |-> 0]

\* the values random_level() may return: the loop
\* `while random::<bool>() && n < self.max_level` ends at any n up to max_level
random_level == 0..max_level

\* append(offset, data), where rnd is what random_level() returns when it
\* is called
append(offset, d, rnd) ==
    LET level == 1 + (IF head = 0 THEN max_level ELSE rnd)
        addr == Len(nodes) + 1
        node == Node_new([i \in 1..level |-> 0], offset, d)
        linked == [k \in DOMAIN nodes |->
                     [nodes[k] EXCEPT !.next =
                         [j \in DOMAIN @ |->
                             IF j <= level /\ tails[j] = k THEN addr ELSE @[j]]]]
    IN [nodes |-> Append(linked, node),
        tails |-> [j \in DOMAIN tails |-> IF j <= level THEN addr ELSE tails[j]],
        head |-> IF head = 0 THEN addr ELSE head,
        length |-> length + 1]

FindSome(d) == [kind |-> "Some", data |-> d]
FindNone == [kind |-> "None", data |-> ""]
\* a panic of the call: a usize subtraction below 0 (with overflow checks),
\* or the index it wraps to, which lies outside the Vec (without them)
FindPanic == [kind |-> "Panic", data |-> ""]

RECURSIVE StartLevel(_)
\* loop { if node.borrow().next[start_level].is_some() { break; }
\*        start_level -= 1; }: the level the loop ends at, or -1 when
\* start_level leaves the range of usize or of next
StartLevel(start_level) ==
    IF start_level < 0 \/ start_level + 1 \notin DOMAIN nodes[head].next THEN -1
    ELSE IF nodes[head].next[start_level + 1] # 0 THEN start_level
    ELSE StartLevel(start_level - 1)

RECURSIVE Walk(_, _, _)
\* the inner loop of find: follow next[level] while its offset <= offset
Walk(n, level, offset) ==
    LET tmp == nodes[n].next[level + 1]
    IN IF tmp # 0 /\ nodes[tmp].offset <= offset THEN Walk(tmp, level, offset) ELSE n

RECURSIVE Search(_, _, _)
\* for level in (0..=start_level).rev(), from `level` on
Search(n, level, offset) ==
    LET m == Walk(n, level, offset)
    IN IF nodes[m].offset = offset THEN FindSome(nodes[m].data)
       ELSE IF level = 0 THEN FindNone
       ELSE Search(m, level - 1, offset)

find(offset) ==
    IF head = 0 THEN FindNone
    ELSE LET start_level == StartLevel(max_level - 1)
         IN IF start_level < 0 THEN FindPanic
            ELSE Search(head, start_level, offset)

NoFind == [kind |-> "None"]

InitSkip ==
    /\ \E level \in 1..MaxLevel :
          LET sl == SkipList_new(level)
          IN /\ head = sl.head /\ tails = sl.tails
             /\ max_level = sl.max_level /\ length = sl.length
    /\ nodes = <<>>
    /\ appended = <<>>
    /\ lastFind = NoFind
    /\ ty = "bool"
    /\ input = <<>> /\ slice = <<>>
    /\ buckets_a = <<>> /\ buckets_b = <<>>
    /\ round = 0 /\ stray = {} /\ pc = "idle"
    /\ root = "none" /\ inserted = {} /\ ninserts = 0
    /\ iters = NoIters /\ emitted = NoneEmitted /\ exhausted = NoneExhausted
    /\ capacity = 0 /\ buffer = <<>> /\ read_offset = 0 /\ write_offset = 0
    /\ fifo = <<>> /\ lastRead = "none" /\ lastWrite = "none"
    /\ data = <<>> /\ tree = <<>> /\ segpc = "idle" /\ nsets = 0
    /\ lastSet = "none" /\ lastQuery = "none"

\* append(offset, data) with an offset above every offset appended before
SkipAppend ==
    /\ length < MaxAppends
    /\ \E step \in 1..MaxStep, d \in SkipData, rnd \in random_level :
          LET offset == (IF appended = <<>> THEN 0 ELSE appended[Len(appended)].offset) + step
              sl == append(offset, d, rnd)
          IN /\ nodes' = sl.nodes /\ tails' = sl.tails
             /\ head' = sl.head /\ length' = sl.length
             /\ appended' = Append(appended, [offset |-> offset, data |-> d])
    /\ lastFind' = NoFind
    /\ UNCHANGED <<max_level, ty, sortVars, treeVars, ringVars, segVars>>

\* find(offset)
SkipFind ==
    /\ \E offset \in 0..(MaxAppends * MaxStep + 1) :
          lastFind' = [kind |-> "Call", offset |-> offset, result |-> find(offset)]
    /\ UNCHANGED <<nodes, head, tails, max_level, length, appended,
                   ty, sortVars, treeVars, ringVars, segVars>>

NextSkip == SkipAppend \/ SkipFind

SpecSkip == InitSkip /\ [][NextSkip]_vars

---------------------------------------------------------------------------
(* Properties of rdxsort and of the decomposition *)

\* non-decreasing in the natural order of T
Sorted(T, s) ==
    \A i \in 1..(Len(s) - 1) : NumLeq(T, s[i].v, s[i + 1].v)

\* s holds each element of the input exactly once
PermutationOfInput(s) ==
    /\ Len(s) = Len(input)
    /\ { s[i].id : i \in DOMAIN s } = DOMAIN input
    /\ \A i \in DOMAIN s : s[i].v = input[s[i].id]

\* C1: for every input sequence of a supported type (the empty one included)
\* rdxsort completes, and the sequence is then non-decreasing in the type's
\* numeric order and a permutation of the input.
C1_SortedPermutation ==
    ty \in Supported =>
        /\ pc \notin {"panic_contract", "panic_bug"}
        /\ pc = "done" => Sorted(ty, slice) /\ PermutationOfInput(slice)

C1_Witness ==
    /\ pc = "done"
    /\ ty \in SignedTypes
    /\ Len(input) = MaxLen
    /\ \E i, j \in DOMAIN input : i < j /\ NumLess(ty, input[j], input[i])
    /\ \E i, j \in DOMAIN input : i < j /\ input[i] = input[j]

\* equal values appear in input order
StableSeq(s) ==
    \A i, j \in DOMAIN s : (i < j /\ s[i].v = s[j].v) => s[i].id < s[j].id

\* C2: rdxsort is stable: after every round of redistribution equal values
\* share a bucket and lie in it in input order, and after the write-back
\* equal values lie in the sequence in input order.
C2_Stable ==
    /\ pc = "rounds" =>
          /\ \A b \in DOMAIN buckets_a : StableSeq(buckets_a[b])
          /\ \A b, c \in DOMAIN buckets_a :
                \A i \in DOMAIN buckets_a[b], j \in DOMAIN buckets_a[c] :
                    buckets_a[b][i].v = buckets_a[c][j].v => b = c
    /\ pc = "done" => StableSeq(slice)

C2_Witness ==
    /\ pc = "done"
    /\ Len(input) = MaxLen
    /\ \E i, j \in DOMAIN input : i < j /\ input[i] = input[j]
    /\ \E i, j \in DOMAIN input : i < j /\ NumLess(ty, input[j], input[i])
    /\ ty \in Unsigned

\* the bucket indices of x, last round first
BucketTuple(T, x) ==
    [i \in 1..cfg_nrounds(T) |-> get_bucket(T, x, cfg_nrounds(T) - i)]

\* every bit pattern of an 8-bit type
AllBytes == { <<lo, hi>> : lo \in Nibbles, hi \in Nibbles }

OrderedByBuckets(T, a, b) ==
    NumLess(T, a, b) => SeqLess(BucketTuple(T, a), BucketTuple(T, b))

LastRoundClass(T, x) ==
    get_bucket(T, x, cfg_nrounds(T) - 1) =
        IF x = MinValue(T) THEN 0
        ELSE IF NumLess(T, x, Zero(T)) THEN 1
        ELSE 2

\* C6: for a signed type the decomposition alone gives the numeric order:
\* a < b makes the bucket tuple of a (last round first) lexicographically
\* smaller than that of b; the last round sends the minimum to bucket 0, the
\* other negatives to 1 and the non-negatives to 2; no bucket is reversed.
C6_SignedOrder ==
    (ty \in SignedTypes /\ pc \in {"call", "done"}) =>
        /\ \A i, j \in DOMAIN input : OrderedByBuckets(ty, input[i], input[j])
        /\ \A i \in DOMAIN input :
              /\ LastRoundClass(ty, input[i])
              /\ input[i] # MinValue(ty) =>
                    SeqLess(BucketTuple(ty, MinValue(ty)), BucketTuple(ty, input[i]))
        /\ \A r \in 0..(cfg_nrounds(ty) - 1), b \in 0..(cfg_nbuckets(ty) - 1) :
              ~reverse(ty, r, b)
        /\ (ty = "i8" /\ pc = "call" /\ input = <<>>) =>
              \A a, b \in AllBytes :
                  OrderedByBuckets("i8", a, b) /\ LastRoundClass("i8", a)

C6_Witness ==
    /\ ty \in SignedTypes
    /\ pc = "done"
    /\ \E i, j, k \in DOMAIN input :
          /\ input[i] = MinValue(ty)
          /\ NumLess(ty, input[j], Zero(ty)) /\ input[j] # MinValue(ty)
          /\ NumLess(ty, Zero(ty), input[k])

BucketInRange(T, x) ==
    \A r \in 0..(cfg_nrounds(T) - 1) : get_bucket(T, x, r) \in 0..(cfg_nbuckets(T) - 1)

\* C7: for every supported type, value and round r < cfg_nrounds(),
\* get_bucket is in [0, cfg_nbuckets()); a signed type's last round returns
\* 0, 1 or 2 and its bucket count is max(unsigned bucket count, 3).
C7_BucketInRange ==
    (ty \in Supported /\ pc \in {"call", "done"}) =>
        /\ \A i \in DOMAIN input : BucketInRange(ty, input[i])
        /\ ty \in SignedTypes =>
              /\ \A i \in DOMAIN input :
                    get_bucket(ty, input[i], cfg_nrounds(ty) - 1) \in {0, 1, 2}
              /\ cfg_nbuckets(ty) >= cfg_nbuckets(Alias(ty))
              /\ cfg_nbuckets(ty) >= 3
              /\ cfg_nbuckets(ty) \in {cfg_nbuckets(Alias(ty)), 3}
        /\ (ty \in {"u8", "i8"} /\ pc = "call" /\ input = <<>>) =>
              \A a \in AllBytes : BucketInRange(ty, a)

C7_Witness ==
    /\ ty \in SignedTypes
    /\ pc = "done"
    /\ \E i \in DOMAIN input : input[i] = Pat(ty, 15, 15, 15)
    /\ \E i \in DOMAIN input : input[i] = MinValue(ty)

RECURSIVE IterOrder(_, _, _, _, _)
\* the order in which round r reads the elements of the bucket set a
IterOrder(T, a, i, nb, r) ==
    IF i >= nb THEN <<>>
    ELSE (IF reverse(T, r - 1, i) THEN Rev(a[i]) ELSE a[i])
            \o IterOrder(T, a, i + 1, nb, r)

RECURSIVE TotalLen(_, _, _)
TotalLen(a, i, nb) == IF i >= nb THEN 0 ELSE Len(a[i]) + TotalLen(a, i + 1, nb)

\* C8: a bucket index >= cfg_nbuckets() makes rdxsort abort at that element
\* instead of completing: the call never completes when some element has
\* such an index in some round, the abort comes exactly at the first such
\* element of the failing round, and nothing is ever stored in a bucket
\* outside [0, cfg_nbuckets()).
C8_AbortBeforeUse ==
    LET nb == cfg_nbuckets(ty)
        src == IF round = 0 THEN slice ELSE IterOrder(ty, buckets_a, 0, nb, round)
        dst == IF round = 0 THEN buckets_a ELSE buckets_b
        k == TotalLen(dst, 0, nb)
    IN /\ stray = {}
       /\ pc \in {"rounds", "panic_contract"} =>
             /\ DOMAIN buckets_a = 0..(nb - 1)
             /\ DOMAIN buckets_b = 0..(nb - 1)
       /\ pc = "done" =>
             \A i \in DOMAIN input, r \in 0..(cfg_nrounds(ty) - 1) :
                 get_bucket(ty, input[i], r) < nb
       /\ pc = "panic_contract" =>
             /\ k < Len(src)
             /\ get_bucket(ty, src[k + 1].v, round) >= nb
             /\ \A j \in 1..k : get_bucket(ty, src[j].v, round) < nb
             /\ \A b \in DOMAIN dst : \A j \in DOMAIN dst[b] :
                   get_bucket(ty, dst[b][j].v, round) = b
             /\ slice = [i \in DOMAIN input |-> [v |-> input[i], id |-> i]]

C8_Witness ==
    /\ pc = "panic_contract"
    /\ round = 1
    /\ TotalLen(buckets_b, 0, cfg_nbuckets(ty)) > 0
    /\ TotalLen(buckets_b, 0, cfg_nbuckets(ty)) < Len(input) - 1

\* A check of the model's own numeric order: the digit order of NumLess is
\* the order of the integers the bit patterns denote (8- and 16-bit types,
\* whose values fit the integers of the model checker; every 8-bit pattern).
NumOrderIsIntegerOrder ==
    /\ (ty \in {"u8", "i8", "u16", "i16"}) =>
          \A i, j \in DOMAIN input :
              NumLess(ty, input[i], input[j]) <=>
                  IntVal(ty, input[i]) < IntVal(ty, input[j])
    /\ (ty \in {"u8", "i8"} /\ pc = "call" /\ input = <<>>) =>
          \A a, b \in AllBytes :
              NumLess(ty, a, b) <=> IntVal(ty, a) < IntVal(ty, b)

---------------------------------------------------------------------------
(* Properties of RdxTree *)

StrictlyAscending(T, s) ==
    \A i \in 1..(Len(s) - 1) : NumLess(T, s[i], s[i + 1])

RECURSIVE CollectFrom(_, _)
\* what an iterator in state `its` returns until it returns None
CollectFrom(rt, its) ==
    LET r == RdxTreeIter_next(rt, its)
    IN IF r.result.some THEN <<r.result.x>> \o CollectFrom(r.root, r.iters)
       ELSE <<>>

\* the whole sequence a new iterator yields
Collect(rt) == CollectFrom(rt, RdxTree_iter(rt))

\* C3: after any insert calls (none included), an iterator yields the
\* distinct inserted values in strictly ascending numeric order, each once:
\* at every point it has yielded exactly the smallest inserted values, in
\* order; when it has yielded them all its next call returns None, and when
\* it has returned None it has yielded them all.
C3_IterAscendingOnce ==
    \A i \in IterIds :
        iters[i] # NoIter =>
            /\ StrictlyAscending(ty, emitted[i])
            /\ Range(emitted[i]) \subseteq inserted
            /\ \A x \in inserted \ Range(emitted[i]) :
                  \A k \in DOMAIN emitted[i] : NumLess(ty, emitted[i][k], x)
            /\ exhausted[i] => Range(emitted[i]) = inserted
            /\ (Len(emitted[i]) = Cardinality(inserted)) =>
                  ~RdxTreeIter_next(root, iters[i]).result.some

C3_Witness ==
    /\ ty \in SignedTypes
    /\ exhausted[1]
    /\ Len(emitted[1]) = MaxInserts
    /\ MinValue(ty) \in inserted
    /\ \E x \in inserted : NumLess(ty, Zero(ty), x)

\* C4: inserting a value that was inserted before leaves the sequence iter()
\* yields and the result of nnodes() as they were.
C4_InsertIdempotent ==
    [][(ninserts' = ninserts + 1 /\ inserted' = inserted) =>
            /\ Collect(root') = Collect(root)
            /\ RdxTree_nnodes(root') = RdxTree_nnodes(root)]_vars

C4_Witness ==
    /\ ninserts > Cardinality(inserted)
    /\ Cardinality(inserted) >= 2
    /\ RdxTree_nnodes(root) > cfg_nrounds(ty)

\* C5: nnodes() never decreases from one insert call to the next.
C5_NnodesMonotone ==
    [][ninserts' = ninserts + 1 => RdxTree_nnodes(root') >= RdxTree_nnodes(root)]_vars

C5_Witness ==
    /\ ninserts = MaxInserts
    /\ Cardinality(inserted) = MaxInserts
    /\ RdxTree_nnodes(root) > cfg_nrounds(ty) + 1

\* C9: creating and advancing iterators leaves the trie as it is, and an
\* iterator that runs to its end has yielded the full sequence of a fresh
\* traversal from the root, however far other iterators were advanced.
C9_IterationFrame ==
    [][ninserts' = ninserts =>
            /\ root' = root
            /\ \A i \in IterIds :
                  (iters'[i] # NoIter /\ exhausted'[i]) => emitted'[i] = Collect(root')]_vars

C9_Witness ==
    \E i, j \in IterIds :
        /\ i # j
        /\ iters[i] # NoIter /\ iters[j] # NoIter
        /\ exhausted[j] /\ Len(emitted[j]) >= 2
        /\ ~exhausted[i]
        /\ Len(emitted[i]) > 0 /\ Len(emitted[i]) < Len(emitted[j])

---------------------------------------------------------------------------
(* Properties of RingBuffer *)

\* C10: RingBuffer is first-in first-out: every successful read returns the
\* oldest element written and not yet read.
C10_Fifo ==
    lastRead.kind = "Ok" => lastRead.value = lastRead.oldest

\* C19: 0 <= write_offset - read_offset <= capacity always; a write when the
\* difference is capacity returns Err(Full) (and only then), a read when it
\* is 0 returns Err(Empty) (and only then), and such a call leaves
\* read_offset, write_offset and the stored elements as they were.
C19_OffsetsBounded ==
    /\ [](write_offset - read_offset >= 0 /\ write_offset - read_offset <= capacity)
    /\ [][/\ is_full =>
                /\ write_offset' = write_offset /\ buffer' = buffer
                /\ lastWrite' # lastWrite =>
                      lastWrite'.kind = "Full" /\ read_offset' = read_offset
          /\ (lastWrite' # lastWrite /\ lastWrite'.kind = "Full") => is_full
          /\ is_empty =>
                /\ read_offset' = read_offset
                /\ lastRead' # lastRead =>
                      /\ lastRead'.kind = "Empty"
                      /\ write_offset' = write_offset /\ buffer' = buffer
          /\ (lastRead' # lastRead /\ lastRead'.kind = "Empty") => is_empty]_vars

C19_Witness ==
    /\ lastWrite.kind = "Full"
    /\ lastRead.kind = "Empty"
    /\ capacity = MaxCap
    /\ read_offset = capacity

\* C20: the slot a successful read or write accesses lies in [0, capacity),
\* also after more than capacity elements were written.
C20_SlotInAllocation ==
    /\ lastRead.kind = "Ok" => lastRead.slot \in 0..(capacity - 1)
    /\ lastWrite.kind = "Ok" => lastWrite.slot \in 0..(capacity - 1)

\* C16: for a type that keeps the Rdx contract, after the round-0
\* distribution and after every later round's redistribution and swap the
\* bucket lengths of the active set sum to the length of the sequence, so
\* neither write-back assertion (pos + bucket.len() <= self.len(),
\* pos == self.len()) ever fails.
C16_BucketLengthsSum ==
    ty \in Supported =>
        /\ pc \in {"rounds", "done"} =>
              TotalLen(buckets_a, 0, cfg_nbuckets(ty)) = Len(input)
        /\ pc # "panic_bug"
        /\ stray = {}

C16_Witness ==
    /\ ty \in Supported
    /\ pc = "rounds"
    /\ round >= 2
    /\ Len(input) = MaxLen
    /\ Cardinality({i \in DOMAIN buckets_a : buckets_a[i] # <<>>}) >= 2
    /\ Cardinality({i \in DOMAIN buckets_b : buckets_b[i] # <<>>}) >= 2

\* C18: when rdxsort aborts because get_bucket returned an index outside the
\* bucket range, the caller's sequence is exactly as it was on entry: all
\* distribution works on clones, and nothing is written back before the
\* last round has ended.
C18_AbortKeepsSequence ==
    pc \in {"call", "rounds", "panic_contract", "panic_bug"} =>
        slice = [i \in DOMAIN input |-> [v |-> input[i], id |-> i]]

C18_Witness ==
    /\ pc = "panic_contract"
    /\ round = 1
    /\ Len(input) = MaxLen
    /\ \E i \in DOMAIN buckets_a : Len(buckets_a[i]) >= 2
    /\ \E i, j \in DOMAIN input : input[i] # input[j]

RECURSIVE WellShaped(_, _, _)
\* the shape of a NodeInner expected at round r with nb buckets
WellShaped(inner, r, nb) ==
    /\ inner.round = r
    /\ DOMAIN inner.children = 0..(nb - 1)
    /\ \A i \in DOMAIN inner.children :
          LET c == inner.children[i]
          IN IF r > 1
             THEN /\ c.kind \in {"Free", "Inner"}
                  /\ c.kind = "Inner" => WellShaped(c.inner, r - 1, nb)
             ELSE c.kind \in {"Free", "Child"}

\* C15: after any sequence of inserts with a type that keeps the Rdx
\* contract the root is an Inner node with round = cfg_nrounds(), every
\* Inner node has exactly cfg_nbuckets() children, an Inner node with round
\* r > 1 has only Free children and Inner children of round r - 1, an Inner
\* node with round 1 has only Free and Child children, and no insert
\* reaches unreachable!().
C15_TrieShape ==
    /\ root.kind = "Inner"
    /\ WellShaped(root.inner, cfg_nrounds(ty), cfg_nbuckets(ty))

C15_Witness ==
    /\ ninserts = MaxInserts
    /\ cfg_nrounds(ty) >= 4
    /\ Cardinality(inserted) >= 2
    /\ RdxTree_nnodes(root) > cfg_nrounds(ty)
    /\ RdxTree_nnodes(root) < 1 + Cardinality(inserted) * (cfg_nrounds(ty) - 1)

RECURSIVE InnerPaths(_, _)
\* the paths of bucket indices that lead from inner to a materialized
\* NodeInner, inner itself included
InnerPaths(inner, path) ==
    {path} \cup
    UNION { InnerPaths(inner.children[i].inner, Append(path, i)) :
              i \in { j \in DOMAIN inner.children : inner.children[j].kind = "Inner" } }

RECURSIVE HasLeaf(_)
\* some Node::Child lies in the subtree of inner
HasLeaf(inner) ==
    \E i \in DOMAIN inner.children :
        \/ inner.children[i].kind = "Child"
        \/ inner.children[i].kind = "Inner" /\ HasLeaf(inner.children[i].inner)

\* C17: nnodes() is the number of materialized Inner nodes, the root
\* included (1 for the empty trie); it is at most
\* 1 + d * (cfg_nrounds() - 1) for d distinct inserted values; every Inner
\* node but the root has a leaf in its subtree.
C17_NnodesCountsInner ==
    LET paths == InnerPaths(root.inner, <<>>)
    IN /\ RdxTree_nnodes(root) = Cardinality(paths)
       /\ inserted = {} => RdxTree_nnodes(root) = 1
       /\ RdxTree_nnodes(root) <=
             1 + Cardinality(inserted) * (cfg_nrounds(ty) - 1)
       /\ \A p \in paths \ {<<>>} : HasLeaf(InnerAt(root.inner, p))

C17_Witness ==
    /\ Cardinality(inserted) = MaxInserts
    /\ ninserts = MaxInserts
    /\ cfg_nrounds(ty) >= 4
    /\ RdxTree_nnodes(root) = 1 + MaxInserts * (cfg_nrounds(ty) - 1)

RECURSIVE TraverseReversing(_, _, _)
\* the values below the children i.. of inner in depth-first order, the
\* contents of a child slot b of a node with round field r + 1 reversed
\* when reverse(r, b)
TraverseReversing(T, inner, i) ==
    IF i \notin DOMAIN inner.children THEN <<>>
    ELSE LET c == inner.children[i]
             sub == CASE c.kind = "Child" -> <<c.x>>
                      [] c.kind = "Inner" -> TraverseReversing(T, c.inner, 0)
                      [] OTHER -> <<>>
         IN (IF reverse(T, inner.round - 1, i) THEN Rev(sub) ELSE sub)
            \o TraverseReversing(T, inner, i + 1)

\* rdxsort reverses the bucket: sorting the inserted values gives the
\* depth-first order with the reversed buckets reversed
RdxsortReversesBucket ==
    LET n == Cardinality(inserted)
        s == CHOOSE q \in [1..n -> inserted] : Range(q) = inserted
    IN rdxsort(ty, s) = TraverseReversing(ty, root.inner, 0)

\* C14: for any Rdx implementation, iteration over the trie emits the
\* values under a child slot `bucket` of an Inner node with round field
\* round + 1 in the reverse of their depth-first order whenever
\* reverse(round, bucket) is true, as rdxsort does: an iterator that ran to
\* its end has emitted the depth-first order with those buckets reversed.
C14_TrieReversesBucket ==
    \A i \in IterIds :
        (iters[i] # NoIter /\ exhausted[i]) =>
            emitted[i] = TraverseReversing(ty, root.inner, 0)

RECURSIVE SumRange(_, _, _)
\* the i32 sum of d[l..=r]
SumRange(d, l, r) == IF l > r THEN 0 ELSE Add32(SumRange(d, l, r - 1), d[r])

C13_SetKeepsTree ==
    /\ segpc # "diverge"
    /\ lastSet.kind = "Call" =>
          /\ lastSet.result = "Ok"
          /\ get(lastSet.index) = Some(lastSet.e)
    /\ segpc = "built" =>
          \A l, r \in DOMAIN data :
              l <= r => query(data, tree, l, r) = [kind |-> "Ok", v |-> SumRange(data, l, r)]
    /\ lastQuery.kind = "Call" =>
          lastQuery.result =
              [kind |-> "Ok", v |-> SumRange(data, lastQuery.l, lastQuery.r)]

\* C11: for a SkipList created with new(level), level >= 1, after n >= 1
\* appends with strictly increasing offsets, whatever the random levels,
\* find(o) returns Some(data) with the data appended for o, for every
\* appended offset o.
C11_FindsAppended ==
    /\ \A k \in DOMAIN appended :
          find(appended[k].offset) = FindSome(appended[k].data)
    /\ lastFind.kind = "Call" =>
          \A k \in DOMAIN appended :
              appended[k].offset = lastFind.offset =>
                  lastFind.result = FindSome(appended[k].data)

\* what does hold: with level >= 2 and at least two appends every appended
\* offset is found, and an offset never appended is not
FindsAppendedFromTwo ==
    (max_level >= 1 /\ Len(appended) >= 2) =>
        /\ \A k \in DOMAIN appended :
              find(appended[k].offset) = FindSome(appended[k].data)
        /\ \A o \in 0..(MaxAppends * MaxStep + 1) :
              (\A k \in DOMAIN appended : appended[k].offset # o) => find(o) = FindNone

\* C21: query(l, r) returns Err("Error") whenever l > r or l or r is no
\* index of the data (>= len), set(index, e) returns Err("Error") whenever
\* index >= len and leaves data and tree as they were, and neither call
\* panics or recurses outside the data range on such arguments.
C21_RejectsOutOfRange ==
    /\ [](/\ lastQuery.kind = "CallOut" => lastQuery.result = [kind |-> "Err"]
          /\ lastSet.kind = "CallOut" => lastSet.result = "Err"
          /\ segpc # "panic")
    /\ [][(lastSet' # lastSet /\ lastSet'.kind = "CallOut") =>
             (data' = data /\ tree' = tree)]_vars

\* what does hold: set rejects every index >= len without effect, and query
\* rejects l > r and every l or r above len
RejectsAboveLen ==
    /\ [](/\ lastSet.kind = "CallOut" => lastSet.result = "Err"
          /\ (lastQuery.kind = "CallOut" /\ lastQuery.result.kind # "Err") =>
                /\ lastQuery.l <= lastQuery.r
                /\ lastQuery.r = Cardinality(DOMAIN data))
    /\ [][(lastSet' # lastSet /\ lastSet'.kind = "CallOut") =>
             (data' = data /\ tree' = tree)]_vars

================================================================================
